---- MODULE Spec2Model ----
(***************************************************************************)
(* A model of pillid (src/src/lib.rs, src/src/macros.rs): the builder that *)
(* stages prefix, timestamp and random bytes, its base-62 rendering, the   *)
(* fixed 61-byte identifier buffer, parsing, deserialization and the typed *)
(* identifiers the pillid! macro generates.                                *)
(*                                                                         *)
(* Text and buffers are sequences of byte values 0..255.  The u64 and u128 *)
(* integers of the code are kept at full width as big-endian byte arrays   *)
(* (the very arrays the code converts with from_be_bytes); `% 62` and      *)
(* `/ 62` on them are long division over the bytes.                        *)
(***************************************************************************)
EXTENDS Integers, Sequences, FiniteSets, TLC

\* ------------------------------------------------------------- constants

PREFIX_BYTES == 32

PREFIX_LENGTH == PREFIX_BYTES

TIMESTAMP_BYTES == 8

TIMESTAMP_LENGTH == 6

RANDOMNESS_BYTES == 16

RANDOM_LENGTH == 22

\* b"0123456789ABCDEFGHIJKLMNOPQRSTUVWXYZabcdefghijklmnopqrstuvwxyz"
CHARSET ==
    << 48, 49, 50, 51, 52, 53, 54, 55, 56, 57,
       65, 66, 67, 68, 69, 70, 71, 72, 73, 74, 75, 76, 77,
       78, 79, 80, 81, 82, 83, 84, 85, 86, 87, 88, 89, 90,
       97, 98, 99, 100, 101, 102, 103, 104, 105, 106, 107, 108, 109,
       110, 111, 112, 113, 114, 115, 116, 117, 118, 119, 120, 121, 122 >>

MAX_LENGTH_PILLID == PREFIX_LENGTH + TIMESTAMP_LENGTH + RANDOM_LENGTH

\* The size of the array inside Pillid: [u8; MAX_LENGTH_PILLID + 1].
BufferLength == MAX_LENGTH_PILLID + 1

\* The '_' that Display writes after the prefix.
Underscore == 95

\* ---------------------------------------------------------------- bounds

\* How many bytes a C-string scan may run past a buffer that holds no zero
\* byte before it meets a zero in the memory that follows.
MaxOverrun == 1

\* How far past a length limit the input strings go.
MaxExcess == 1

\* The small timestamps 0..MaxTick (seconds after the epoch).
MaxTick == 1

\* ------------------------------------------------------------ byte arrays

Fill(n, c) == [i \in 1..n |-> c]

Zeros(n) == Fill(n, 0)

\* buf[..s.len()].copy_from_slice(s), for Len(s) <= Len(buf)
CopyInto(buf, s) == [i \in 1..Len(buf) |-> IF i <= Len(s) THEN s[i] ELSE buf[i]]

NulAt(bytes) == {i \in 1..Len(bytes) : bytes[i] = 0}

FirstNul(bytes) == CHOOSE i \in NulAt(bytes) : \A j \in NulAt(bytes) : i <= j

\* The bytes before the first zero byte (all of them when there is none).
UpToNul(bytes) ==
    IF NulAt(bytes) = {} THEN bytes ELSE SubSeq(bytes, 1, FirstNul(bytes) - 1)

\* The given text without its trailing zero bytes.
RECURSIVE StripZeros(_)
StripZeros(bytes) ==
    IF bytes # <<>> /\ bytes[Len(bytes)] = 0
    THEN StripZeros(SubSeq(bytes, 1, Len(bytes) - 1))
    ELSE bytes

StartsWith(s, p) == Len(p) <= Len(s) /\ SubSeq(s, 1, Len(p)) = p

\* Lexicographic order of byte sequences (slices and arrays under Ord).
RECURSIVE LexLess(_, _)
LexLess(a, b) ==
    IF b = <<>> THEN FALSE
    ELSE IF a = <<>> THEN TRUE
    ELSE IF a[1] # b[1] THEN a[1] < b[1]
    ELSE LexLess(Tail(a), Tail(b))

\* What Utf8Error rejects, over the byte values the model uses: ASCII is
\* valid, and 0xF8..0xFF occur in no UTF-8 text.
IsUtf8(s) == \A i \in 1..Len(s) : s[i] < 128

\* The memory a scan can meet after an unterminated buffer, up to that
\* memory's first zero byte: any bytes at all, here an ASCII byte and 0xFF.
GarbageBytes == {120, 255}

RECURSIVE SeqsUpTo(_, _)
SeqsUpTo(S, n) ==
    IF n = 0 THEN {<<>>}
    ELSE LET shorter == SeqsUpTo(S, n - 1)
         IN  shorter \cup {Append(s, c) : s \in shorter, c \in S}

Overruns == SeqsUpTo(GarbageBytes, MaxOverrun)

\* CStr::from_ptr(bytes.as_ptr()).to_str().unwrap(): the scan stops at the
\* first zero byte; with none inside `bytes` it runs on into `mem`, the memory
\* behind the buffer (undefined behaviour: every `mem` is possible).  The
\* unwrap panics on text that is not UTF-8.
str_from_bytes(bytes, mem) ==
    LET raw == IF NulAt(bytes) = {} THEN bytes \o mem ELSE UpToNul(bytes)
    IN  [ok |-> IsUtf8(raw), s |-> raw]

\* ------------------------------------------------------------- base 62

\* n / 62 and n % 62 of the unsigned integer whose big-endian bytes are n.
RECURSIVE DivStep(_, _, _, _)
DivStep(n, i, carry, q) ==
    IF i > Len(n) THEN [quot |-> q, rem |-> carry]
    ELSE LET cur == carry * 256 + n[i]
         IN  DivStep(n, i + 1, cur % 62, Append(q, cur \div 62))

DivMod62(n) == DivStep(n, 1, 0, <<>>)

\* u64::from_be_bytes(timestamp).into(): the u128 of the same value.
U64IntoU128(timestamp) == Zeros(RANDOMNESS_BYTES - TIMESTAMP_BYTES) \o timestamp

\* for i in (0..len).rev() { output_buffer[i] = CHARSET[n % 62]; n /= 62 }
RECURSIVE Base62Loop(_, _, _)
Base62Loop(n, i, output_buffer) ==
    IF i = 0 THEN output_buffer
    ELSE LET d == DivMod62(n)
         IN  Base62Loop(d.quot, i - 1,
                        [output_buffer EXCEPT ![i] = CHARSET[d.rem + 1]])

RECURSIVE Base62LoopForward(_, _, _, _)
Base62LoopForward(n, i, len, output_buffer) ==
    IF i > len THEN output_buffer
    ELSE LET d == DivMod62(n)
         IN  Base62LoopForward(d.quot, i + 1, len,
                               [output_buffer EXCEPT ![i] = CHARSET[d.rem + 1]])

\* A slip in the loop's direction: least significant digit first.
LeastSignificantFirst(n, len, output_buffer) ==
    Base62LoopForward(n, 1, len, output_buffer)

u128_to_base62_str(n, len, output_buffer) == Base62Loop(n, len, output_buffer)

\* ----------------------------------------------------------------- inputs

\* A u64 below 256 as its big-endian bytes.
U64Bytes(k) == Zeros(TIMESTAMP_BYTES - 1) \o <<k>>

\* 62^6 = 56800235584, the first timestamp that needs a seventh digit.
TimestampWrap == <<0, 0, 0, 13, 57, 142, 208, 64>>

\* 62^6 - 1, the last timestamp six digits hold.
TimestampLast == <<0, 0, 0, 13, 57, 142, 208, 63>>

\* 0..MaxTick, the digit boundary 61 | 62, the width boundary, and u64::MAX.
TimestampInputs ==
    {U64Bytes(k) : k \in 0..MaxTick}
        \cup {U64Bytes(61), U64Bytes(62), TimestampLast, TimestampWrap,
              Fill(TIMESTAMP_BYTES, 255)}

RandomInputs ==
    {Zeros(RANDOMNESS_BYTES),
     Zeros(RANDOMNESS_BYTES - 1) \o <<1>>,
     Fill(RANDOMNESS_BYTES, 255)}

\* 62^21, the first random value that needs all 22 digits.
RandomTopDigit == <<32, 219, 90, 228, 83, 169, 105, 11, 107, 240, 208, 183, 83, 224, 0, 0>>

\* The random fields of the identifiers that are compared.
PairRandomInputs == RandomInputs \cup {RandomTopDigit}

\* What the clock and the generator hand to new().
NowInputs == {U64Bytes(MaxTick), TimestampWrap}

RngInputs == {Zeros(RANDOMNESS_BYTES - 1) \o <<1>>, Fill(RANDOMNESS_BYTES, 255)}

\* "prefixed"
Prefixed == <<112, 114, 101, 102, 105, 120, 101, 100>>

\* "a\0b": a &str may hold a zero byte.
WithNul == <<97, 0, 98>>

\* The empty prefix, two short ones, and every length from one below the
\* limit to MaxExcess above it.
PrefixInputs ==
    {<<>>, Prefixed, WithNul}
        \cup {Fill(n, 97) : n \in (PREFIX_LENGTH - 1)..(PREFIX_LENGTH + MaxExcess)}

\* "foo" (pillid!(Foo, "foo")), a prefix with a zero byte, a full-length one.
DomainPrefixes == {<<102, 111, 111>>, WithNul, Fill(PREFIX_LENGTH, 97)}

\* "", "a", "a\0b", "foo_x", "bar_x", and every length from one below the
\* limit to MaxExcess above it.
StrInputs ==
    {<<>>, <<97>>, WithNul, <<102, 111, 111, 95, 120>>, <<98, 97, 114, 95, 120>>}
        \cup {Fill(n, 97) : n \in (MAX_LENGTH_PILLID - 1)..(MAX_LENGTH_PILLID + MaxExcess)}

\* ------------------------------------------------------------- builder

NoPrefix == [some |-> FALSE, bytes |-> <<>>]

SomePrefix(bytes) == [some |-> TRUE, bytes |-> bytes]

\* impl Default for PillidBuilder
DefaultBuilder ==
    [prefix |-> NoPrefix,
     timestamp |-> Zeros(TIMESTAMP_BYTES),
     random |-> Zeros(RANDOMNESS_BYTES)]

set_random(b, random) == [b EXCEPT !.random = random]

set_timestamp(b, timestamp) == [b EXCEPT !.timestamp = timestamp]

\* A slip in the bound: one byte more is let through, and the copy into the
\* 32-byte array keeps what fits.
TruncatingSetPrefix(b, prefix) ==
    IF Len(prefix) > PREFIX_LENGTH + 1
    THEN [err |-> "PrefixTooLong", b |-> b]
    ELSE [err |-> "Ok",
          b |-> [b EXCEPT !.prefix =
                    SomePrefix(CopyInto(Zeros(PREFIX_BYTES), prefix))]]

\* set_prefix: Err(PrefixTooLong) before anything is written, else the prefix
\* copied into a zeroed 32-byte array.
set_prefix(b, prefix) ==
    IF Len(prefix) > PREFIX_LENGTH
    THEN [err |-> "PrefixTooLong", b |-> b]
    ELSE [err |-> "Ok",
          b |-> [b EXCEPT !.prefix =
                    SomePrefix(CopyInto(Zeros(PREFIX_BYTES), prefix))]]

\* with_prefix works on its own copy and hands it back only on Ok.
with_prefix(b, prefix) == set_prefix(b, prefix)

\* prefix(): None, or the stored array read as a C string.
prefix_of(b, mem) ==
    IF ~b.prefix.some THEN [tag |-> "none", s |-> <<>>]
    ELSE LET r == str_from_bytes(b.prefix.bytes, mem)
         IN  IF r.ok THEN [tag |-> "some", s |-> r.s]
             ELSE [tag |-> "panic", s |-> <<>>]

\* The timestamp digits of Display::fmt: the u64 of the bytes, widened, in a
\* buffer one byte longer than its six digits.
encode_timestamp(timestamp) ==
    UpToNul(u128_to_base62_str(U64IntoU128(timestamp), TIMESTAMP_LENGTH,
                               Zeros(TIMESTAMP_LENGTH + 1)))

\* A slip in the width: floor(log_62(2^128)) digits, without the + 1.
EncodeRandomOneDigitShort(random) ==
    UpToNul(u128_to_base62_str(random, RANDOM_LENGTH - 1, Zeros(RANDOM_LENGTH + 1)))

\* The random digits of Display::fmt: the u128 of the bytes in a buffer one
\* byte longer than its 22 digits.
encode_random(random) ==
    UpToNul(u128_to_base62_str(random, RANDOM_LENGTH, Zeros(RANDOM_LENGTH + 1)))

\* Both encodings depend on the field alone; they are computed once for each
\* value the inputs hold.
TimestampDigits == [t \in TimestampInputs \cup NowInputs |-> encode_timestamp(t)]

RandomDigits ==
    [r \in RandomInputs \cup RngInputs \cup PairRandomInputs |-> encode_random(r)]

timestamp_digits(b) == TimestampDigits[b.timestamp]

random_digits(b) == RandomDigits[b.random]

\* A slip in the order of the two fields: the random digits come first.
RandomBeforeTimestamp(b, mem) ==
    LET p == IF b.prefix.some THEN str_from_bytes(b.prefix.bytes, mem)
             ELSE [ok |-> TRUE, s |-> <<>>]
        head == IF b.prefix.some THEN p.s \o <<Underscore>> ELSE <<>>
    IN  IF ~p.ok THEN [tag |-> "panic", s |-> <<>>]
        ELSE [tag |-> "ok", s |-> head \o random_digits(b) \o timestamp_digits(b)]

\* impl Display for PillidBuilder (to_string): `mem` is the memory behind the
\* local copy of the prefix array.
to_string(b, mem) ==
    LET p == IF b.prefix.some THEN str_from_bytes(b.prefix.bytes, mem)
             ELSE [ok |-> TRUE, s |-> <<>>]
        head == IF b.prefix.some THEN p.s \o <<Underscore>> ELSE <<>>
    IN  IF ~p.ok THEN [tag |-> "panic", s |-> <<>>]
        ELSE [tag |-> "ok", s |-> head \o timestamp_digits(b) \o random_digits(b)]

\* build: the rendered text copied into a zeroed Pillid buffer; the slice
\* output_bytes[..len] panics when the text is longer than the buffer.
build(b, mem) ==
    LET output_str == to_string(b, mem)
    IN  IF output_str.tag = "panic" \/ Len(output_str.s) > BufferLength
        THEN [tag |-> "panic", buf |-> <<>>, text |-> output_str.s]
        ELSE [tag |-> "ok",
              buf |-> CopyInto(Zeros(BufferLength), output_str.s),
              text |-> output_str.s]

\* -------------------------------------------------------------- Pillid

\* impl Default for Pillid: the zeroed buffer.
pillid_default == Zeros(BufferLength)

\* impl Display for Pillid: the buffer read as a C string; `mem` is the memory
\* behind the buffer, met only when the buffer holds no zero byte.
pillid_to_string(buf, mem) == str_from_bytes(buf, mem)

\* impl FromStr for Pillid
from_str(s) ==
    IF Len(s) >= MAX_LENGTH_PILLID
    THEN [tag |-> "TooLong", buf |-> <<>>]
    ELSE [tag |-> "ok", buf |-> CopyInto(Zeros(BufferLength), s)]

\* impl From<String> for Pillid: from_str(&s).unwrap()
from_string(s) ==
    LET r == from_str(s)
    IN  IF r.tag = "ok" THEN r ELSE [tag |-> "panic", buf |-> <<>>]

\* impl Deserialize for Pillid, given the string the deserializer yields.
deserialize(s) ==
    IF Len(s) > MAX_LENGTH_PILLID
    THEN [tag |-> "TooLong", buf |-> <<>>]
    ELSE from_string(s)

\* PillidBuilder::new(): the clock's seconds and 16 bytes of the OS generator.
builder_new(now, rnd) == set_random(set_timestamp(DefaultBuilder, now), rnd)

\* A slip in Pillid::new: the prefix is dropped.
PillidNewWithoutPrefix(prefix, now, rnd, mem) == build(builder_new(now, rnd), mem)

\* Pillid::new(prefix): PillidBuilder::new().with_prefix(prefix).unwrap().build()
pillid_new(prefix, now, rnd, mem) ==
    LET r == with_prefix(builder_new(now, rnd), prefix)
    IN  IF r.err # "Ok" THEN [tag |-> "panic", buf |-> <<>>, text |-> <<>>]
        ELSE build(r.b, mem)

\* ------------------------------------------------------ typed identifiers
\* pillid!(T, prefix): a newtype over Pillid.  `d` is the macro's prefix.

typed_new(d, now, rnd, mem) == pillid_new(d, now, rnd, mem)

typed_from_str(s) == from_str(s)

typed_from_string(s) ==
    LET r == typed_from_str(s)
    IN  IF r.tag = "ok" THEN r ELSE [tag |-> "panic", buf |-> <<>>]

typed_deserialize(s) == deserialize(s)

\* ------------------------------------------------------------------ state

VARIABLES
    builder,   \* the PillidBuilder being staged
    op,        \* the operation that ran last
    arg,       \* its text argument (the rendered text, for build)
    res,       \* what it returned
    prev,      \* the Pillid buffer a re-parse started from
    ids        \* two identifiers kept side by side for comparison

vars == <<builder, op, arg, res, prev, ids>>

Res(tag, val, dom) == [tag |-> tag, val |-> val, dom |-> dom]

Unit == Res("unit", <<>>, <<>>)

Panic == Res("panic", <<>>, <<>>)

NoId == [tag |-> "none"]

Init ==
    /\ builder = DefaultBuilder
    /\ op = "init"
    /\ arg = <<>>
    /\ res = Unit
    /\ prev = <<>>
    /\ ids = [k \in 1..2 |-> NoId]

\* What a Pillid-returning call leaves in res.
PillidRes(r, dom) ==
    IF r.tag = "ok" THEN Res(IF dom = <<>> THEN "pillid" ELSE "typed", r.buf, dom)
    ELSE Res(r.tag, <<>>, <<>>)

\* ---------------------------------------------------------------- actions

\* Pillid::builder() / PillidBuilder::default()
BuilderDefault ==
    /\ builder' = DefaultBuilder
    /\ op' = "default" /\ arg' = <<>> /\ res' = Unit
    /\ prev' = <<>> /\ UNCHANGED ids

BuilderNew ==
    \E now \in NowInputs, rnd \in RngInputs :
        /\ builder' = builder_new(now, rnd)
        /\ op' = "new" /\ arg' = <<>> /\ res' = Unit
        /\ prev' = <<>> /\ UNCHANGED ids

SetPrefix ==
    \E p \in PrefixInputs :
        LET r == set_prefix(builder, p)
        IN  /\ builder' = r.b
            /\ op' = "set_prefix" /\ arg' = p
            /\ res' = IF r.err = "Ok" THEN Unit ELSE Res(r.err, <<>>, <<>>)
            /\ prev' = <<>> /\ UNCHANGED ids

\* builder = builder.with_prefix(p)?: on Err the caller keeps its own copy.
WithPrefix ==
    \E p \in PrefixInputs :
        LET r == with_prefix(builder, p)
        IN  /\ builder' = IF r.err = "Ok" THEN r.b ELSE builder
            /\ op' = "with_prefix" /\ arg' = p
            /\ res' = IF r.err = "Ok" THEN Unit ELSE Res(r.err, <<>>, <<>>)
            /\ prev' = <<>> /\ UNCHANGED ids

\* set_timestamp / with_timestamp
SetTimestamp ==
    \E t \in TimestampInputs :
        /\ builder' = set_timestamp(builder, t)
        /\ op' = "set_timestamp" /\ arg' = <<>> /\ res' = Unit
        /\ prev' = <<>> /\ UNCHANGED ids

\* set_random / with_random
SetRandom ==
    \E r \in RandomInputs :
        /\ builder' = set_random(builder, r)
        /\ op' = "set_random" /\ arg' = <<>> /\ res' = Unit
        /\ prev' = <<>> /\ UNCHANGED ids

\* builder.prefix()
GetPrefix ==
    \E mem \in Overruns :
        LET r == prefix_of(builder, mem)
        IN  /\ op' = "prefix" /\ arg' = <<>>
            /\ res' = Res(r.tag, r.s, <<>>)
            /\ prev' = <<>> /\ UNCHANGED <<builder, ids>>

\* builder.to_string()
BuilderToString ==
    \E mem \in Overruns :
        LET r == to_string(builder, mem)
        IN  /\ op' = "to_string" /\ arg' = <<>>
            /\ res' = IF r.tag = "ok" THEN Res("text", r.s, <<>>) ELSE Panic
            /\ prev' = <<>> /\ UNCHANGED <<builder, ids>>

\* builder.build()
Build ==
    \E mem \in Overruns :
        LET r == build(builder, mem)
        IN  /\ op' = "build" /\ arg' = r.text
            /\ res' = PillidRes(r, <<>>)
            /\ prev' = <<>> /\ UNCHANGED <<builder, ids>>

\* Pillid::new(prefix)
PillidNew ==
    \E p \in PrefixInputs, now \in NowInputs, rnd \in RngInputs, mem \in Overruns :
        LET r == pillid_new(p, now, rnd, mem)
        IN  /\ op' = "pillid_new" /\ arg' = p
            /\ res' = PillidRes(r, <<>>)
            /\ prev' = <<>> /\ UNCHANGED <<builder, ids>>

\* Pillid::default()
PillidDefault ==
    /\ op' = "pillid_default" /\ arg' = <<>>
    /\ res' = Res("pillid", pillid_default, <<>>)
    /\ prev' = <<>> /\ UNCHANGED <<builder, ids>>

\* Pillid::from_str(s) / s.parse()
FromStr ==
    \E s \in StrInputs :
        /\ op' = "from_str" /\ arg' = s
        /\ res' = PillidRes(from_str(s), <<>>)
        /\ prev' = <<>> /\ UNCHANGED <<builder, ids>>

\* Pillid::from(String)
FromString ==
    \E s \in StrInputs :
        /\ op' = "from_string" /\ arg' = s
        /\ res' = PillidRes(from_string(s), <<>>)
        /\ prev' = <<>> /\ UNCHANGED <<builder, ids>>

\* Pillid::deserialize of the string s
Deserialize ==
    \E s \in StrInputs :
        /\ op' = "deserialize" /\ arg' = s
        /\ res' = PillidRes(deserialize(s), <<>>)
        /\ prev' = <<>> /\ UNCHANGED <<builder, ids>>

\* Pillid::from_str(&v.to_string()) of the Pillid v the last call returned.
Reparse ==
    /\ res.tag = "pillid"
    /\ \E mem \in Overruns :
        LET text == pillid_to_string(res.val, mem)
        IN  /\ op' = "reparse" /\ arg' = text.s
            /\ res' = IF text.ok THEN PillidRes(from_str(text.s), <<>>) ELSE Panic
            /\ prev' = res.val
            /\ UNCHANGED <<builder, ids>>

\* TPillid::new() / TPillid::default() of the type pillid!(T, d) generates.
TypedNew ==
    \E d \in DomainPrefixes, now \in NowInputs, rnd \in RngInputs, mem \in Overruns :
        /\ op' = "typed_new" /\ arg' = <<>>
        /\ res' = PillidRes(typed_new(d, now, rnd, mem), d)
        /\ prev' = <<>> /\ UNCHANGED <<builder, ids>>

\* TPillid::from_str(s)
TypedFromStr ==
    \E d \in DomainPrefixes, s \in StrInputs :
        /\ op' = "typed_from_str" /\ arg' = s
        /\ res' = PillidRes(typed_from_str(s), d)
        /\ prev' = <<>> /\ UNCHANGED <<builder, ids>>

\* TPillid::from(String)
TypedFromString ==
    \E d \in DomainPrefixes, s \in StrInputs :
        /\ op' = "typed_from_string" /\ arg' = s
        /\ res' = PillidRes(typed_from_string(s), d)
        /\ prev' = <<>> /\ UNCHANGED <<builder, ids>>

\* TPillid::from(Pillid) of the Pillid the last call returned.
TypedFromPillid ==
    /\ res.tag = "pillid"
    /\ \E d \in DomainPrefixes :
        /\ op' = "typed_from_pillid" /\ arg' = <<>>
        /\ res' = Res("typed", res.val, d)
        /\ prev' = <<>> /\ UNCHANGED <<builder, ids>>

\* TPillid::deserialize of the string s
TypedDeserialize ==
    \E d \in DomainPrefixes, s \in StrInputs :
        /\ op' = "typed_deserialize" /\ arg' = s
        /\ res' = PillidRes(typed_deserialize(s), d)
        /\ prev' = <<>> /\ UNCHANGED <<builder, ids>>

\* Pillid::from(TPillid) of the typed identifier the last call returned.
TypedIntoPillid ==
    /\ res.tag = "typed"
    /\ op' = "into_pillid" /\ arg' = <<>>
    /\ res' = Res("pillid", res.val, <<>>)
    /\ prev' = <<>> /\ UNCHANGED <<builder, ids>>

\* ------------------------------------------- identifiers side by side
\* let a = ...; let b = ...; each binding is made once, by a builder chain,
\* a parse or Pillid::default(), and the two values are then compared.

PairPrefixChoices ==
    {NoPrefix, SomePrefix(Prefixed), SomePrefix(WithNul),
     SomePrefix(Fill(PREFIX_LENGTH, 97))}

PairStrInputs == {<<>>, <<97>>, WithNul}

\* PillidBuilder::default()[.with_prefix(p)?].with_timestamp(t).with_random(r)
chain(p, t, r) ==
    LET staged == IF p.some THEN with_prefix(DefaultBuilder, p.bytes)
                  ELSE [err |-> "Ok", b |-> DefaultBuilder]
    IN  [err |-> staged.err, b |-> set_random(set_timestamp(staged.b, t), r)]

Kept(buf, how, src) == [tag |-> "pillid", buf |-> buf, how |-> how, src |-> src]

\* let id_k = chain.build()
BindBuilt ==
    \E k \in 1..2, p \in PairPrefixChoices, t \in TimestampInputs,
       r \in PairRandomInputs, mem \in Overruns :
        LET c == chain(p, t, r)
            v == build(c.b, mem)
        IN  /\ ids[k].tag = "none"
            /\ c.err = "Ok" /\ v.tag = "ok"
            /\ ids' = [ids EXCEPT ![k] = Kept(v.buf, "build", c.b)]
            /\ UNCHANGED <<builder, op, arg, res, prev>>

\* let id_k = Pillid::from_str(s)?
BindParsed ==
    \E k \in 1..2, s \in PairStrInputs :
        LET v == from_str(s)
        IN  /\ ids[k].tag = "none"
            /\ v.tag = "ok"
            /\ ids' = [ids EXCEPT ![k] = Kept(v.buf, "from_str", DefaultBuilder)]
            /\ UNCHANGED <<builder, op, arg, res, prev>>

\* let id_k = Pillid::default()
BindDefault ==
    \E k \in 1..2 :
        /\ ids[k].tag = "none"
        /\ ids' = [ids EXCEPT ![k] = Kept(pillid_default, "default", DefaultBuilder)]
        /\ UNCHANGED <<builder, op, arg, res, prev>>

\* --------------------------------------------------------- specifications

\* PillidBuilder and Pillid.
Next ==
    \/ BuilderDefault
    \/ BuilderNew
    \/ SetPrefix
    \/ WithPrefix
    \/ SetTimestamp
    \/ SetRandom
    \/ GetPrefix
    \/ BuilderToString
    \/ Build
    \/ PillidDefault
    \/ FromStr
    \/ FromString
    \/ Deserialize
    \/ Reparse

Spec == Init /\ [][Next]_vars

\* The types pillid! generates, and the Pillid values they wrap.
TypedNext ==
    \/ PillidNew
    \/ FromStr
    \/ TypedNew
    \/ TypedFromStr
    \/ TypedFromString
    \/ TypedFromPillid
    \/ TypedDeserialize
    \/ TypedIntoPillid

TypedSpec == Init /\ [][TypedNext]_vars

\* Two identifiers compared.
PairNext ==
    \/ BindBuilt
    \/ BindParsed
    \/ BindDefault

PairSpec == Init /\ [][PairNext]_vars

\* ------------------------------------------------------------------ claims

\* C1: round trip.  Parsing the text of any identifier that build or a
\* successful from_str produced succeeds and yields that identifier again.
C1_RoundTrip == op = "reparse" => res = Res("pillid", prev, <<>>)

\* C2: buffer invariant.  Every Pillid that build or a successful parse
\* produced holds at most MAX_LENGTH_PILLID bytes of text, so its last byte is
\* the zero terminator, and every byte after the text is zero.
C2_BufferInvariant ==
    (res.tag = "pillid" /\ op \in {"build", "from_str", "reparse"}) =>
        /\ Len(arg) <= MAX_LENGTH_PILLID
        /\ res.val[BufferLength] = 0
        /\ \A i \in (Len(arg) + 1)..BufferLength : res.val[i] = 0

\* C3: for every prefix of at most PREFIX_LENGTH bytes, set_prefix and
\* with_prefix succeed and prefix() then returns exactly that prefix.
C3_PrefixReadBack ==
    [][(op' \in {"set_prefix", "with_prefix"} /\ Len(arg') <= PREFIX_LENGTH) =>
          /\ res' = Unit
          /\ \A mem \in Overruns :
                prefix_of(builder', mem) = [tag |-> "some", s |-> arg']]_vars

\* C4: for every prefix longer than PREFIX_LENGTH bytes, set_prefix and
\* with_prefix return PrefixTooLong and leave the builder's prefix, timestamp
\* and random fields as they were.
C4_TooLongRejected ==
    [][(op' \in {"set_prefix", "with_prefix"} /\ Len(arg') > PREFIX_LENGTH) =>
          /\ res' = Res("PrefixTooLong", <<>>, <<>>)
          /\ builder' = builder]_vars

C4_Witness ==
    /\ op \in {"set_prefix", "with_prefix"}
    /\ Len(arg) > PREFIX_LENGTH
    /\ res.tag = "PrefixTooLong"
    /\ builder.prefix = SomePrefix(CopyInto(Zeros(PREFIX_BYTES), Prefixed))
    /\ builder.timestamp = TimestampWrap
    /\ builder.random = Fill(RANDOMNESS_BYTES, 255)

\* The reference encoding of C5: the value of the big-endian bytes modulo
\* 62^width, accumulated byte by byte in base 62 (digits := digits * 256 +
\* byte, the carry out of the top digit dropped), then mapped to the alphabet.
RECURSIVE RefMulAdd(_, _, _)
RefMulAdd(digits, i, carry) ==
    IF i = 0 THEN digits
    ELSE LET v == digits[i] * 256 + carry
         IN  RefMulAdd([digits EXCEPT ![i] = v % 62], i - 1, v \div 62)

RECURSIVE RefHorner(_, _, _)
RefHorner(bytes, k, digits) ==
    IF k > Len(bytes) THEN digits
    ELSE RefHorner(bytes, k + 1, RefMulAdd(digits, Len(digits), bytes[k]))

ReferenceDigits(bytes, width) ==
    LET d == RefHorner(bytes, 1, Zeros(width))
    IN  [i \in 1..width |-> CHARSET[d[i] + 1]]

ReferenceText(b) ==
    (IF b.prefix.some THEN StripZeros(b.prefix.bytes) \o <<Underscore>> ELSE <<>>)
        \o ReferenceDigits(b.timestamp, TIMESTAMP_LENGTH)
        \o ReferenceDigits(b.random, RANDOM_LENGTH)

\* C5: for every builder the rendered text is the reference encoding: the
\* prefix and '_' when a prefix is set, six base-62 digits of the timestamp
\* and 22 of the random field, most significant first, modulo 62^width.
C5_RenderIsReference ==
    op = "to_string" => res = Res("text", ReferenceText(builder), <<>>)

\* C6: deserialize returns Err exactly when from_str does, never panics, and
\* otherwise returns the value from_str returns.
C6_DeserializeAsParse ==
    op = "deserialize" => res = PillidRes(from_str(arg), <<>>)

\* Both identifiers were built, from builders with the same prefix.
BuiltAlike(i, j) ==
    /\ ids[i].tag = "pillid" /\ ids[j].tag = "pillid"
    /\ ids[i].how = "build" /\ ids[j].how = "build"
    /\ ids[i].src.prefix = ids[j].src.prefix

\* C7: of two identifiers built with the same prefix (or both with none), the
\* one whose six timestamp digits are lexicographically smaller compares
\* less under the derived Ord, whatever the two random fields are.
C7_OrderedByDigits ==
    \A i, j \in 1..2 :
        (/\ BuiltAlike(i, j)
         /\ LexLess(timestamp_digits(ids[i].src), timestamp_digits(ids[j].src)))
            => LexLess(ids[i].buf, ids[j].buf)

\* The first identifier's digits are smaller although its timestamp and its
\* random field are the larger ones (its timestamp has wrapped).
C7_Witness ==
    /\ BuiltAlike(1, 2)
    /\ ids[1].src.prefix.some
    /\ LexLess(timestamp_digits(ids[1].src), timestamp_digits(ids[2].src))
    /\ LexLess(ids[2].src.timestamp, ids[1].src.timestamp)
    /\ LexLess(ids[2].src.random, ids[1].src.random)
    /\ LexLess(ids[1].buf, ids[2].buf)

\* C8: every value of a type pillid!(T, prefix) generates, however obtained,
\* has a text that begins with the prefix and '_'.
C8_TypedPrefix ==
    res.tag = "typed" => StartsWith(UpToNul(res.val), res.dom \o <<Underscore>>)

\* C8 as amended: the values new() and default() return begin with the prefix,
\* up to its first zero byte, and '_'.
C8_TypedNewPrefix ==
    (res.tag = "typed" /\ op = "typed_new") =>
        StartsWith(UpToNul(res.val), UpToNul(res.dom) \o <<Underscore>>)

C8_Witness ==
    /\ res.tag = "typed" /\ op = "typed_new"
    /\ res.dom = <<102, 111, 111>>
    /\ StartsWith(UpToNul(res.val), <<102, 111, 111, 95>>)

\* C9: two identifiers from build, default or a successful from_str are equal
\* as whole buffers exactly when their texts, the content up to the first
\* zero byte, are equal.
C9_EqualityIsText ==
    \A i, j \in 1..2 :
        (ids[i].tag = "pillid" /\ ids[j].tag = "pillid") =>
            ((ids[i].buf = ids[j].buf) <=> (UpToNul(ids[i].buf) = UpToNul(ids[j].buf)))

\* The u64, as big-endian bytes, that a run of base-62 digits denotes
\* (value := value * 62 + digit, byte by byte).
RECURSIVE DecMulAdd(_, _, _)
DecMulAdd(bytes, i, carry) ==
    IF i = 0 THEN bytes
    ELSE LET v == bytes[i] * 62 + carry
         IN  DecMulAdd([bytes EXCEPT ![i] = v % 256], i - 1, v \div 256)

RECURSIVE DecodeBase62(_, _, _)
DecodeBase62(digits, k, value) ==
    IF k > Len(digits) THEN value
    ELSE LET d == CHOOSE x \in 1..Len(CHARSET) : CHARSET[x] = digits[k]
         IN  DecodeBase62(digits, k + 1, DecMulAdd(value, Len(value), d - 1))

\* C10: of two identifiers built with the same prefix from timestamps
\* t1 < t2 < 62^6 (as big-endian u64), the first compares strictly less,
\* whatever the two random fields are; and below 62^6 nothing wraps: the six
\* digits denote the timestamp itself.
C10_TimeSortable ==
    /\ \A i, j \in 1..2 :
        (/\ BuiltAlike(i, j)
         /\ LexLess(ids[i].src.timestamp, ids[j].src.timestamp)
         /\ LexLess(ids[j].src.timestamp, TimestampWrap))
            => LexLess(ids[i].buf, ids[j].buf)
    /\ \A i \in 1..2 :
        (/\ BuiltAlike(i, i)
         /\ LexLess(ids[i].src.timestamp, TimestampWrap))
            => DecodeBase62(timestamp_digits(ids[i].src), 1,
                            Zeros(TIMESTAMP_BYTES)) = ids[i].src.timestamp

\* The earlier identifier carries the larger random field and still sorts
\* first; the timestamps 1 and 62 differ in which digit they occupy.
C10_Witness ==
    /\ BuiltAlike(1, 2)
    /\ ids[1].src.timestamp = U64Bytes(1)
    /\ ids[2].src.timestamp = U64Bytes(62)
    /\ LexLess(ids[2].src.random, ids[1].src.random)
    /\ LexLess(ids[1].buf, ids[2].buf)

\* C11: the random field is encoded without loss.  Two identifiers built
\* with the same prefix and the same timestamp from different random bytes
\* are unequal and have different texts, and the 22 digits denote the
\* 128-bit value itself (62^22 > 2^128: nothing wraps).
C11_RandomLossless ==
    /\ \A i, j \in 1..2 :
        (/\ BuiltAlike(i, j)
         /\ ids[i].src.timestamp = ids[j].src.timestamp
         /\ ids[i].src.random # ids[j].src.random)
            => /\ ids[i].buf # ids[j].buf
               /\ \A m1, m2 \in Overruns :
                    pillid_to_string(ids[i].buf, m1).s
                        # pillid_to_string(ids[j].buf, m2).s
    /\ \A i \in 1..2 :
        BuiltAlike(i, i)
            => DecodeBase62(random_digits(ids[i].src), 1,
                            Zeros(RANDOMNESS_BYTES)) = ids[i].src.random

\* The two random fields differ by 62^21 exactly, so their low 21 digits
\* agree and only the top digit tells the identifiers apart.
C11_Witness ==
    /\ BuiltAlike(1, 2)
    /\ ids[1].src.prefix.some
    /\ ids[1].src.timestamp = ids[2].src.timestamp
    /\ ids[1].src.random = Zeros(RANDOMNESS_BYTES)
    /\ ids[2].src.random = RandomTopDigit
    /\ SubSeq(random_digits(ids[1].src), 2, RANDOM_LENGTH)
         = SubSeq(random_digits(ids[2].src), 2, RANDOM_LENGTH)
    /\ ids[1].buf # ids[2].buf

====
